---- MODULE Spec2Model ----
(***************************************************************************)
(* Model of file_manager.py: the extension classifier, the directory       *)
(* provisioner, the unique-name resolver and the on_created event handler  *)
(* acting on a filesystem shared with other processes.                     *)
(*                                                                         *)
(* A string is a sequence of one-character strings; a path is a sequence   *)
(* of such names, relative to WATCH_DIRECTORY.  The filesystem is a        *)
(* function from the paths that exist to their entries.                    *)
(***************************************************************************)
EXTENDS Integers, Sequences, FiniteSets, TLC

VARIABLES fs, queue, pc, event, filename, extension, category, dest_path,
          counter, exc, outcome, moved_id, created, meddled, unit, main

hvars ==
    <<pc, event, filename, extension, category, dest_path, counter, exc,
      outcome, moved_id>>

vars ==
    <<fs, queue, pc, event, filename, extension, category, dest_path,
      counter, exc, outcome, moved_id, created, meddled, unit, main>>

(***************************************************************************)
(* Bounds of the model.                                                    *)
(***************************************************************************)
\* files other processes drop into the watch root
MaxFiles ==
    2

\* actions of other processes on the category directories and on sources
MaxMeddle ==
    2

\* largest _N suffix another process pre-creates in a category directory
MaxSuffix ==
    2

(***************************************************************************)
(* Strings.                                                                *)
(***************************************************************************)
LowerCase ==
    <<"a", "b", "c", "d", "e", "f", "g", "h", "i", "j", "k", "l", "m",
      "n", "o", "p", "q", "r", "s", "t", "u", "v", "w", "x", "y", "z">>

UpperCase ==
    <<"A", "B", "C", "D", "E", "F", "G", "H", "I", "J", "K", "L", "M",
      "N", "O", "P", "Q", "R", "S", "T", "U", "V", "W", "X", "Y", "Z">>

Digits ==
    <<"0", "1", "2", "3", "4", "5", "6", "7", "8", "9">>

\* str.lower(), one character
lower_char(c) ==
    IF \E i \in 1..Len(UpperCase) : UpperCase[i] = c
    THEN LowerCase[CHOOSE i \in 1..Len(UpperCase) : UpperCase[i] = c]
    ELSE c

\* str.lower()
lower(s) ==
    [i \in 1..Len(s) |-> lower_char(s[i])]

\* str.upper(), used to draw test inputs
upper_char(c) ==
    IF \E i \in 1..Len(LowerCase) : LowerCase[i] = c
    THEN UpperCase[CHOOSE i \in 1..Len(LowerCase) : LowerCase[i] = c]
    ELSE c

upper(s) ==
    [i \in 1..Len(s) |-> upper_char(s[i])]

\* only the character after the dot in upper case: ".Pdf"
capitalised(s) ==
    [i \in 1..Len(s) |-> IF i = 2 THEN upper_char(s[i]) ELSE s[i]]

\* str(int): the decimal digits of a natural number
RECURSIVE str(_)
str(n) ==
    IF n < 10
    THEN <<Digits[n + 1]>>
    ELSE str(n \div 10) \o <<Digits[(n % 10) + 1]>>

(***************************************************************************)
(* EXTENSION_MAPPINGS, in the insertion order of the dict.                 *)
(***************************************************************************)
PDF ==
    <<"P", "D", "F">>

Images ==
    <<"I", "m", "a", "g", "e", "s">>

Video ==
    <<"V", "i", "d", "e", "o">>

Audio ==
    <<"A", "u", "d", "i", "o">>

Documents ==
    <<"D", "o", "c", "u", "m", "e", "n", "t", "s">>

Zip ==
    <<"Z", "i", "p">>

Ebook ==
    <<"E", "b", "o", "o", "k">>

Installers ==
    <<"I", "n", "s", "t", "a", "l", "l", "e", "r", "s">>

Others ==
    <<"O", "t", "h", "e", "r", "s">>


EXTENSION_MAPPINGS ==
    <<
       [category |-> PDF,
        extensions |-> <<<<".", "p", "d", "f">>>>],
       [category |-> Images,
        extensions |-> <<<<".", "j", "p", "g">>,
                       <<".", "j", "p", "e", "g">>,
                       <<".", "p", "n", "g">>,
                       <<".", "g", "i", "f">>,
                       <<".", "b", "m", "p">>,
                       <<".", "t", "i", "f", "f">>,
                       <<".", "w", "e", "b", "p">>>>],
       [category |-> Video,
        extensions |-> <<<<".", "m", "p", "4">>,
                       <<".", "m", "o", "v">>,
                       <<".", "a", "v", "i">>,
                       <<".", "m", "k", "v">>,
                       <<".", "w", "m", "v">>,
                       <<".", "f", "l", "v">>,
                       <<".", "w", "e", "b", "m">>,
                       <<".", "m", "4", "v">>>>],
       [category |-> Audio,
        extensions |-> <<<<".", "m", "p", "3">>,
                       <<".", "w", "a", "v">>,
                       <<".", "f", "l", "a", "c">>,
                       <<".", "a", "a", "c">>,
                       <<".", "o", "g", "g">>,
                       <<".", "m", "4", "a">>,
                       <<".", "w", "m", "a">>>>],
       [category |-> Documents,
        extensions |-> <<<<".", "d", "o", "c">>,
                       <<".", "d", "o", "c", "x">>,
                       <<".", "x", "l", "s">>,
                       <<".", "x", "l", "s", "x">>,
                       <<".", "p", "p", "t">>,
                       <<".", "p", "p", "t", "x">>,
                       <<".", "t", "x", "t">>,
                       <<".", "r", "t", "f">>,
                       <<".", "c", "s", "v">>,
                       <<".", "o", "d", "t">>>>],
       [category |-> Zip,
        extensions |-> <<<<".", "z", "i", "p">>,
                       <<".", "r", "a", "r">>,
                       <<".", "7", "z">>,
                       <<".", "t", "a", "r">>,
                       <<".", "g", "z">>,
                       <<".", "b", "z", "2">>>>],
       [category |-> Ebook,
        extensions |-> <<<<".", "e", "p", "u", "b">>,
                       <<".", "m", "o", "b", "i">>,
                       <<".", "a", "z", "w">>,
                       <<".", "a", "z", "w", "3">>,
                       <<".", "p", "d", "f">>>>],
       [category |-> Installers,
        extensions |-> <<<<".", "e", "x", "e">>,
                       <<".", "d", "m", "g">>,
                       <<".", "p", "k", "g">>,
                       <<".", "a", "p", "p">>,
                       <<".", "m", "s", "i">>>>]
    >>

\* list(EXTENSION_MAPPINGS.keys()) + ["Others"]
AllCategories ==
    {EXTENSION_MAPPINGS[i].category : i \in 1..Len(EXTENSION_MAPPINGS)}
        \cup {Others}

\* `file_extension in extensions`, membership in a list
InList(e, l) ==
    \E i \in 1..Len(l) : l[i] = e

\* the for loop of get_category from the i-th item of the dict on
RECURSIVE ScanMappings(_, _)
ScanMappings(file_extension, i) ==
    IF i > Len(EXTENSION_MAPPINGS)
    THEN Others
    ELSE IF InList(file_extension, EXTENSION_MAPPINGS[i].extensions)
         THEN EXTENSION_MAPPINGS[i].category
         ELSE ScanMappings(file_extension, i + 1)

\* get_category without the normalisation to lower case
get_category_case_sensitive(file_extension) ==
    ScanMappings(file_extension, 1)

get_category(file_extension) ==
    ScanMappings(lower(file_extension), 1)

(***************************************************************************)
(* Paths (os.path).                                                        *)
(***************************************************************************)
\* the watch root; every path of the model is relative to it
WATCH_DIRECTORY ==
    <<>>

\* os.path.join(directory, name)
join(directory, name) ==
    Append(directory, name)

\* os.path.basename(path)
basename(path) ==
    path[Len(path)]

\* os.path.dirname(path)
dirname(path) ==
    SubSeq(path, 1, Len(path) - 1)

\* position of the last "." of a name, 0 when it has none
LastDot(name) ==
    IF \E i \in 1..Len(name) : name[i] = "."
    THEN CHOOSE i \in 1..Len(name) :
            /\ name[i] = "."
            /\ \A j \in (i + 1)..Len(name) : name[j] # "."
    ELSE 0

\* os.path.splitext on a name: the extension starts at the last dot, unless
\* only dots precede that dot
splitext(name) ==
    LET d == LastDot(name)
    IN  IF d = 0 \/ (\A i \in 1..(d - 1) : name[i] = ".")
        THEN [root |-> name, ext |-> <<>>]
        ELSE [root |-> SubSeq(name, 1, d - 1),
              ext |-> SubSeq(name, d, Len(name))]

\* os.path.splitext on a path: only the last component is split
path_splitext(path) ==
    LET s == splitext(basename(path))
    IN  [root |-> join(dirname(path), s.root), ext |-> s.ext]

\* the counter put after the extension instead of before it
new_path_after_extension(base_path, n, ext) ==
    join(dirname(base_path), basename(base_path) \o ext \o <<"_">> \o str(n))

\* f"{base_path}_{counter}{extension}"
new_path(base_path, n, ext) ==
    join(dirname(base_path), basename(base_path) \o <<"_">> \o str(n) \o ext)

\* filename.startswith(".") answering no for every name
startswith_dot_never(name) ==
    FALSE

\* filename.startswith(".")
startswith_dot(name) ==
    Len(name) >= 1 /\ SubSeq(name, 1, 1) = <<".">>

\* `if not extension` never taken
not_extension_never(ext) ==
    FALSE

\* `not extension`: the empty string is falsy
not_extension(ext) ==
    ext = <<>>

IsPrefix(p, q) ==
    Len(p) <= Len(q) /\ SubSeq(q, 1, Len(p)) = p

(***************************************************************************)
(* The filesystem.                                                         *)
(***************************************************************************)
Mode755 ==
    7 * 64 + 5 * 8 + 5

Mode644 ==
    6 * 64 + 4 * 8 + 4

\* mode of a directory right after mkdir and of a file another process
\* creates, under a umask of 077
UmaskDirMode ==
    7 * 64

UmaskFileMode ==
    6 * 64

File(id, mode) ==
    [kind |-> "file", mode |-> mode, id |-> id]

Dir(mode) ==
    [kind |-> "dir", mode |-> mode, id |-> 0]

\* os.path.exists(path)
exists(f, path) ==
    path \in DOMAIN f

\* os.path.isdir(path)
isdir(f, path) ==
    path \in DOMAIN f /\ f[path].kind = "dir"

Put(f, path, entry) ==
    [q \in DOMAIN f \cup {path} |-> IF q = path THEN entry ELSE f[q]]

\* rm -rf path
RemoveTree(f, path) ==
    [q \in {r \in DOMAIN f : ~IsPrefix(path, r)} |-> f[q]]

\* os.rename(src, dst): the entry at src, with what is below it, is at dst
\* afterwards and replaces what was there
Rename(f, src, dst) ==
    LET rest(q, p) == SubSeq(q, Len(p) + 1, Len(q))
        kept == {q \in DOMAIN f : ~IsPrefix(src, q)}
        moved == {dst \o rest(q, src) : q \in {r \in DOMAIN f : IsPrefix(src, r)}}
    IN  [q \in kept \cup moved |->
            IF q \in moved THEN f[src \o rest(q, dst)] ELSE f[q]]

\* the path shutil.move(src, dst) moves to: inside dst when dst is a directory
real_dst(f, src, dst) ==
    IF isdir(f, dst) THEN join(dst, basename(src)) ELSE dst

\* shutil.move(src, dst) succeeds
move_ok(f, src, dst) ==
    LET rd == real_dst(f, src, dst)
    IN  /\ exists(f, src)
        /\ isdir(f, dirname(rd))
        /\ isdir(f, dst) => ~exists(f, rd)
        /\ f[src].kind = "dir" => ~exists(f, rd)

\* the category directories as main leaves them
BootstrappedFs ==
    [p \in {WATCH_DIRECTORY} \cup {join(WATCH_DIRECTORY, c) : c \in AllCategories}
        |-> Dir(Mode755)]

(***************************************************************************)
(* Creation events of the watch subscription.                              *)
(***************************************************************************)
FileCreated(path) ==
    [src_path |-> path, is_directory |-> FALSE]

DirCreated(path) ==
    [src_path |-> path, is_directory |-> TRUE]

NoEvent ==
    [src_path |-> <<>>, is_directory |-> FALSE]

NoCall ==
    [fn |-> "none", arg |-> <<>>, ret |-> <<>>, done |-> FALSE]

\* local variables of on_created
src_path ==
    event.src_path

category_path ==
    join(WATCH_DIRECTORY, category)

\* a try block that ends before the permission step
TryBlock_before_chmod ==
    {"sleep", "exists_src", "hidden", "splitext", "classify", "ensure",
     "makedirs", "chmod_dir", "resolve", "probe", "move"}

\* the statements of on_created inside its try block (lines 91-133)
TryBlock ==
    {"sleep", "exists_src", "hidden", "splitext", "classify", "ensure",
     "makedirs", "chmod_dir", "resolve", "probe", "move", "chmod"}

\* main: its position, the index of its for loop, the state of the observer
\* it holds
\* and of its thread, and whether the interrupt signal has arrived
MainRunning ==
    [pc |-> "loop", i |-> 0, observer |-> "started", thread |-> "alive",
     interrupted |-> FALSE]

\* where ensure_directory_exists returns to: the for loop of main (line 150)
\* or on_created (line 120)
ensure_return ==
    IF main.pc = "ensure" THEN "verified" ELSE "resolve"

\* the watch subscription reports a new entry of the watch root while the
\* observer runs
Notify(e) ==
    IF main.observer = "started" THEN Append(queue, e) ELSE queue

(***************************************************************************)
(* Inputs.                                                                 *)
(***************************************************************************)
ReportPDF ==
    <<"r", "e", "p", "o", "r", "t", ".", "P", "D", "F">>

ArchiveTarGz ==
    <<"a", "r", "c", "h", "i", "v", "e", ".", "t", "a", "r", ".", "g", "z">>

DotNotesTxt ==
    <<".", "n", "o", "t", "e", "s", ".", "t", "x", "t">>

StuffPdf ==
    <<"s", "t", "u", "f", "f", ".", "p", "d", "f">>

\* names of the files other processes create in the watch root; the last
\* one is a file without extension named like a category directory
FileNames ==
    {ReportPDF, ArchiveTarGz, DotNotesTxt, PDF}

\* names of the directories other processes create in the watch root
DirNames ==
    {StuffPdf, PDF}

\* category directories other processes remove
MeddledCategories ==
    {PDF}

\* the names whose destinations other processes write to
ContendedNames ==
    {ReportPDF}

\* dest_path of on_created for a file of that name (lines 118 and 123)
Destination(name) ==
    join(join(WATCH_DIRECTORY, get_category(splitext(name).ext)), name)

\* the n-th path get_unique_filename probes for that destination
Renaming(name, n) ==
    new_path(path_splitext(Destination(name)).root, n,
             path_splitext(Destination(name)).ext)

\* the destination of a name and its first MaxSuffix renamings
Candidates(name) ==
    {Destination(name)} \cup {Renaming(name, n) : n \in 1..MaxSuffix}

\* where other processes write while on_created runs
IntrudePaths ==
    UNION {{Destination(name), Renaming(name, 1)} : name \in ContendedNames}

(***************************************************************************)
(* Exceptions: a statement of the try block that raises transfers control  *)
(* to the except clause; anywhere else the exception leaves on_created and *)
(* ends the thread that delivers the events.                               *)
(***************************************************************************)
Raise(e) ==
    /\ exc' = e
    /\ pc' = IF main.pc = "ensure" THEN "boot_except"
             ELSE IF pc \in TryBlock THEN "except" ELSE "dead"
    /\ UNCHANGED <<fs, queue, event, filename, extension, category,
                   dest_path, counter, outcome, moved_id>>

Goto(label) ==
    /\ pc' = label
    /\ UNCHANGED exc

Finish(result) ==
    /\ pc' = "return"
    /\ outcome' = result
    /\ UNCHANGED exc

(***************************************************************************)
(* on_created, one action per statement that reads or writes the           *)
(* filesystem or decides the control flow.                                 *)
(***************************************************************************)
\* the observer thread takes the next event and calls on_created
Dispatch ==
    /\ main.observer = "started"
    /\ pc = "idle"
    /\ queue # <<>>
    /\ event' = Head(queue)
    /\ queue' = Tail(queue)
    /\ Goto("on_created")
    /\ UNCHANGED <<fs, filename, extension, category, dest_path, counter,
                   outcome, moved_id, created, meddled, unit, main>>

\* on_created without the test of event.is_directory
IsDirectoryCheck_absent ==
    /\ pc = "on_created"
    /\ Goto("sleep")
    /\ UNCHANGED <<fs, queue, event, filename, extension, category, dest_path,
                   counter, outcome, moved_id, created, meddled, unit, main>>

\* lines 87-89
IsDirectoryCheck ==
    /\ pc = "on_created"
    /\ IF event.is_directory THEN Finish("ignored") ELSE Goto("sleep") /\ UNCHANGED outcome
    /\ UNCHANGED <<fs, queue, event, filename, extension, category,
                   dest_path, counter, moved_id, created, meddled, unit, main>>

\* line 93
Sleep ==
    /\ pc = "sleep"
    /\ Goto("exists_src")
    /\ UNCHANGED <<fs, queue, event, filename, extension, category,
                   dest_path, counter, outcome, moved_id, created, meddled, unit, main>>

\* on_created without the test that the source still exists
ExistsSource_absent ==
    /\ pc = "exists_src"
    /\ Goto("hidden")
    /\ UNCHANGED <<fs, queue, event, filename, extension, category, dest_path,
                   counter, outcome, moved_id, created, meddled, unit, main>>

\* lines 95-100
ExistsSource ==
    /\ pc = "exists_src"
    /\ IF ~exists(fs, src_path) THEN Finish("vanished") ELSE Goto("hidden") /\ UNCHANGED outcome
    /\ UNCHANGED <<fs, queue, event, filename, extension, category,
                   dest_path, counter, moved_id, created, meddled, unit, main>>

\* lines 103-106
HiddenCheck ==
    /\ pc = "hidden"
    /\ filename' = basename(src_path)
    /\ IF startswith_dot(filename') THEN Finish("hidden") ELSE Goto("splitext") /\ UNCHANGED outcome
    /\ UNCHANGED <<fs, queue, event, extension, category, dest_path,
                   counter, moved_id, created, meddled, unit, main>>

\* lines 109-112
ExtensionCheck ==
    /\ pc = "splitext"
    /\ extension' = splitext(filename).ext
    /\ IF not_extension(extension') THEN Finish("no_extension") ELSE Goto("classify") /\ UNCHANGED outcome
    /\ UNCHANGED <<fs, queue, event, filename, category, dest_path,
                   counter, moved_id, created, meddled, unit, main>>

\* lines 114-118
Classify ==
    /\ pc = "classify"
    /\ category' = get_category(extension)
    /\ Goto("ensure")
    /\ UNCHANGED <<fs, queue, event, filename, extension, dest_path,
                   counter, outcome, moved_id, created, meddled, unit, main>>

\* ensure_directory_exists without the test of line 63
EnsureExists_always_create ==
    /\ pc = "ensure"
    /\ Goto("makedirs")
    /\ UNCHANGED <<fs, queue, event, filename, extension, category,
                   dest_path, counter, outcome, moved_id, created, meddled, unit, main>>

\* ensure_directory_exists, line 63
EnsureExists ==
    /\ pc = "ensure"
    /\ IF ~exists(fs, category_path) THEN Goto("makedirs") ELSE Goto(ensure_return)
    /\ UNCHANGED <<fs, queue, event, filename, extension, category,
                   dest_path, counter, outcome, moved_id, created, meddled, unit, main>>

\* ensure_directory_exists, line 64: os.makedirs(directory, exist_ok=True);
\* the new directory is an entry of the watch root, so it is reported
MakeDirs ==
    /\ pc = "makedirs"
    /\ \/ /\ ~exists(fs, category_path)
          /\ fs' = Put(fs, category_path, Dir(UmaskDirMode))
          /\ queue' = Notify(DirCreated(category_path))
          /\ Goto("chmod_dir")
          /\ UNCHANGED <<event, filename, extension, category, dest_path,
                         counter, outcome, moved_id>>
       \/ /\ isdir(fs, category_path)
          /\ Goto("chmod_dir")
          /\ UNCHANGED <<fs, queue, event, filename, extension, category,
                         dest_path, counter, outcome, moved_id>>
       \/ /\ exists(fs, category_path) /\ ~isdir(fs, category_path)
          /\ Raise("FileExistsError")
       \/ Raise("PermissionError")
    /\ UNCHANGED <<created, meddled, unit, main>>

\* ensure_directory_exists, line 65: os.chmod(directory, 0o755)
ChmodDir ==
    /\ pc = "chmod_dir"
    /\ \/ /\ exists(fs, category_path)
          /\ fs' = [fs EXCEPT ![category_path].mode = Mode755]
          /\ Goto(ensure_return)
          /\ UNCHANGED <<queue, event, filename, extension, category,
                         dest_path, counter, outcome, moved_id>>
       \/ /\ ~exists(fs, category_path)
          /\ Raise("FileNotFoundError")
       \/ Raise("PermissionError")
    /\ UNCHANGED <<created, meddled, unit, main>>

\* get_unique_filename returning its argument without looking
ResolveFirst_no_check ==
    /\ pc = "resolve"
    /\ dest_path' = join(category_path, filename)
    /\ Goto("move")
    /\ UNCHANGED <<fs, queue, event, filename, extension, category, counter,
                   outcome, moved_id, created, meddled, unit, main>>

\* line 123 and get_unique_filename, lines 72-76
ResolveFirst ==
    /\ pc = "resolve"
    /\ dest_path' = join(category_path, filename)
    /\ IF ~exists(fs, dest_path')
       THEN Goto("move") /\ UNCHANGED counter
       ELSE Goto("probe") /\ counter' = 1
    /\ UNCHANGED <<fs, queue, event, filename, extension, category,
                   outcome, moved_id, created, meddled, unit, main>>

\* the loop of get_unique_filename without `counter += 1`
ResolveProbe_same_counter ==
    /\ pc = "probe"
    /\ LET s == path_splitext(dest_path)
           p == new_path(s.root, counter, s.ext)
       IN  IF ~exists(fs, p)
           THEN Goto("move") /\ dest_path' = p /\ counter' = 0
           ELSE Goto("probe") /\ UNCHANGED <<counter, dest_path>>
    /\ UNCHANGED <<fs, queue, event, filename, extension, category,
                   outcome, moved_id, created, meddled, unit, main>>

\* get_unique_filename, lines 78-82: one turn of the loop
ResolveProbe ==
    /\ pc = "probe"
    /\ LET s == path_splitext(dest_path)
           p == new_path(s.root, counter, s.ext)
       IN  IF ~exists(fs, p)
           THEN Goto("move") /\ dest_path' = p /\ counter' = 0
           ELSE Goto("probe") /\ counter' = counter + 1 /\ UNCHANGED dest_path
    /\ UNCHANGED <<fs, queue, event, filename, extension, category,
                   outcome, moved_id, created, meddled, unit, main>>

\* line 128: shutil.move(src_path, dest_path)
Move ==
    /\ pc = "move"
    /\ \/ /\ move_ok(fs, src_path, dest_path)
          /\ fs' = Rename(fs, src_path, real_dst(fs, src_path, dest_path))
          /\ moved_id' = fs[src_path].id
          /\ Goto("chmod")
          /\ UNCHANGED <<queue, event, filename, extension, category,
                         dest_path, counter, outcome>>
       \/ /\ ~move_ok(fs, src_path, dest_path)
          /\ Raise("OSError")
       \/ Raise("PermissionError")
    /\ UNCHANGED <<created, meddled, unit, main>>

\* line 132: os.chmod(dest_path, 0o644)
ChmodFile ==
    /\ pc = "chmod"
    /\ \/ /\ exists(fs, dest_path)
          /\ fs' = [fs EXCEPT ![dest_path].mode = Mode644]
          /\ Finish("moved")
          /\ UNCHANGED <<queue, event, filename, extension, category,
                         dest_path, counter, moved_id>>
       \/ /\ ~exists(fs, dest_path)
          /\ Raise("FileNotFoundError")
       \/ Raise("PermissionError")
    /\ UNCHANGED <<created, meddled, unit, main>>

\* an except clause that puts the moved file back
Except_rollback ==
    /\ pc = "except"
    /\ pc' = "return"
    /\ outcome' = "error"
    /\ fs' = IF moved_id # 0 /\ exists(fs, dest_path) /\ ~exists(fs, src_path)
             THEN Rename(fs, dest_path, src_path)
             ELSE fs
    /\ UNCHANGED <<queue, event, filename, extension, category,
                   dest_path, counter, exc, moved_id, created, meddled, unit, main>>

\* an except clause that goes on with the event when the failure came
\* before the destination was computed
Except_resumes ==
    /\ pc = "except"
    /\ IF dest_path = <<>>
       THEN pc' = "resolve" /\ UNCHANGED outcome
       ELSE pc' = "return" /\ outcome' = "error"
    /\ UNCHANGED <<fs, queue, event, filename, extension, category,
                   dest_path, counter, exc, moved_id, created, meddled, unit, main>>

\* lines 135-139
Except ==
    /\ pc = "except"
    /\ pc' = "return"
    /\ outcome' = "error"
    /\ UNCHANGED <<fs, queue, event, filename, extension, category,
                   dest_path, counter, exc, moved_id, created, meddled, unit, main>>

\* on_created returns to the observer thread; its locals are gone
Return ==
    /\ pc = "return"
    /\ pc' = "idle"
    /\ event' = NoEvent
    /\ filename' = <<>>
    /\ extension' = <<>>
    /\ category' = <<>>
    /\ dest_path' = <<>>
    /\ counter' = 0
    /\ exc' = "none"
    /\ outcome' = "none"
    /\ moved_id' = 0
    /\ UNCHANGED <<fs, queue, created, meddled, unit, main>>

(***************************************************************************)
(* Other processes.                                                        *)
(***************************************************************************)
\* a file appears in the watch root
CreateFile ==
    /\ created < MaxFiles
    /\ \E name \in FileNames :
          /\ ~exists(fs, join(WATCH_DIRECTORY, name))
          /\ fs' = Put(fs, join(WATCH_DIRECTORY, name),
                       File(created + 1, UmaskFileMode))
          /\ queue' = Notify(FileCreated(join(WATCH_DIRECTORY, name)))
    /\ created' = created + 1
    /\ UNCHANGED <<hvars, meddled, unit, main>>

\* a directory appears in the watch root
CreateDir ==
    /\ meddled < MaxMeddle
    /\ \E name \in DirNames :
          /\ ~exists(fs, join(WATCH_DIRECTORY, name))
          /\ fs' = Put(fs, join(WATCH_DIRECTORY, name), Dir(UmaskDirMode))
          /\ queue' = Notify(DirCreated(join(WATCH_DIRECTORY, name)))
    /\ meddled' = meddled + 1
    /\ UNCHANGED <<hvars, created, unit, main>>

\* a file of the watch root is deleted or moved away
DeleteSource ==
    /\ meddled < MaxMeddle
    /\ \E name \in FileNames :
          /\ exists(fs, join(WATCH_DIRECTORY, name))
          /\ fs[join(WATCH_DIRECTORY, name)].kind = "file"
          /\ fs' = RemoveTree(fs, join(WATCH_DIRECTORY, name))
    /\ meddled' = meddled + 1
    /\ UNCHANGED <<hvars, queue, created, unit, main>>

\* a category directory is removed with its contents
RemoveCategory ==
    /\ meddled < MaxMeddle
    /\ \E c \in MeddledCategories :
          /\ isdir(fs, join(WATCH_DIRECTORY, c))
          /\ fs' = RemoveTree(fs, join(WATCH_DIRECTORY, c))
    /\ meddled' = meddled + 1
    /\ UNCHANGED <<hvars, queue, created, unit, main>>

\* a file or a directory appears inside a category directory; the watch is
\* not recursive, so no event reports it
Intrude ==
    /\ meddled < MaxMeddle
    /\ \E p \in IntrudePaths, k \in {"file", "dir"} :
          /\ ~exists(fs, p)
          /\ isdir(fs, dirname(p))
          /\ fs' = Put(fs, p, IF k = "file" THEN File(0, UmaskFileMode)
                                            ELSE Dir(UmaskDirMode))
    /\ meddled' = meddled + 1
    /\ UNCHANGED <<hvars, queue, created, unit, main>>



IdleHandler ==
    /\ pc = "idle"
    /\ event = NoEvent
    /\ filename = <<>>
    /\ extension = <<>>
    /\ category = <<>>
    /\ dest_path = <<>>
    /\ counter = 0
    /\ exc = "none"
    /\ outcome = "none"
    /\ moved_id = 0

\* the observer has started: main has provisioned the category directories
Init ==
    /\ fs = BootstrappedFs
    /\ queue = <<>>
    /\ IdleHandler
    /\ created = 0
    /\ meddled = 0
    /\ unit = NoCall
    /\ main = MainRunning

Next ==
    \/ Dispatch
    \/ IsDirectoryCheck
    \/ Sleep
    \/ ExistsSource
    \/ HiddenCheck
    \/ ExtensionCheck
    \/ Classify
    \/ EnsureExists
    \/ MakeDirs
    \/ ChmodDir
    \/ ResolveFirst
    \/ ResolveProbe
    \/ Move
    \/ ChmodFile
    \/ Except
    \/ Return
    \/ CreateFile
    \/ CreateDir
    \/ DeleteSource
    \/ RemoveCategory
    \/ Intrude

Spec ==
    Init /\ [][Next]_vars

\* the steps of the observer thread: on_created and its call by the observer
HandlerNext ==
    \/ Dispatch
    \/ IsDirectoryCheck
    \/ Sleep
    \/ ExistsSource
    \/ HiddenCheck
    \/ ExtensionCheck
    \/ Classify
    \/ EnsureExists
    \/ MakeDirs
    \/ ChmodDir
    \/ ResolveFirst
    \/ ResolveProbe
    \/ Move
    \/ ChmodFile
    \/ Except
    \/ Return

\* other processes only create entries in the watch root, finitely many
\* (MaxFiles, MaxMeddle)
NextLive ==
    \/ Dispatch
    \/ IsDirectoryCheck
    \/ Sleep
    \/ ExistsSource
    \/ HiddenCheck
    \/ ExtensionCheck
    \/ Classify
    \/ EnsureExists
    \/ MakeDirs
    \/ ChmodDir
    \/ ResolveFirst
    \/ ResolveProbe
    \/ Move
    \/ ChmodFile
    \/ Except
    \/ Return
    \/ CreateFile
    \/ CreateDir

\* the paths n earlier files named report.PDF were stored at
LeftBehind(n) ==
    IF n = 0 THEN {}
    ELSE {Destination(ReportPDF)} \cup {Renaming(ReportPDF, j) : j \in 1..(n - 1)}

\* the observer has started; a category directory has been removed since, or
\* earlier runs have left files in it
InitLive ==
    /\ fs \in {RemoveTree(BootstrappedFs, join(WATCH_DIRECTORY, PDF))}
             \cup {[p \in DOMAIN BootstrappedFs \cup LeftBehind(n) |->
                      IF p \in DOMAIN BootstrappedFs THEN BootstrappedFs[p]
                      ELSE File(0, Mode644)] : n \in 0..MaxSuffix}
    /\ queue = <<>>
    /\ IdleHandler
    /\ created = 0
    /\ meddled = 0
    /\ unit = NoCall
    /\ main = MainRunning

\* the observer thread is scheduled again and again and every filesystem
\* call returns
LiveSpec ==
    InitLive /\ [][NextLive]_vars /\ WF_vars(HandlerNext)

\* other processes leave the category directories alone
NextQuiet ==
    \/ Dispatch
    \/ IsDirectoryCheck
    \/ Sleep
    \/ ExistsSource
    \/ HiddenCheck
    \/ ExtensionCheck
    \/ Classify
    \/ EnsureExists
    \/ MakeDirs
    \/ ChmodDir
    \/ ResolveFirst
    \/ ResolveProbe
    \/ Move
    \/ ChmodFile
    \/ Except
    \/ Return
    \/ CreateFile
    \/ CreateDir
    \/ DeleteSource

\* the observer has started; a category directory may have been removed
\* since, before the events
InitQuiet ==
    /\ fs \in {BootstrappedFs, RemoveTree(BootstrappedFs, join(WATCH_DIRECTORY, PDF))}
    /\ queue = <<>>
    /\ IdleHandler
    /\ created = 0
    /\ meddled = 0
    /\ unit = NoCall
    /\ main = MainRunning

SpecQuiet ==
    InitQuiet /\ [][NextQuiet]_vars

(***************************************************************************)
(* main: the bootstrap loop, the start of the observer, the idle loop and   *)
(* the interrupt signal.  During the bootstrap loop the observer does not   *)
(* run, and pc and category are the position and the loop variable of main  *)
(* inside ensure_directory_exists.                                          *)
(***************************************************************************)
\* list(EXTENSION_MAPPINGS.keys()) + ["Others"], as a list
CategoryList ==
    [i \in 1..(Len(EXTENSION_MAPPINGS) + 1) |->
        IF i <= Len(EXTENSION_MAPPINGS) THEN EXTENSION_MAPPINGS[i].category
                                        ELSE Others]

MainStart ==
    [pc |-> "for", i |-> 1, observer |-> "unbound", thread |-> "unstarted",
     interrupted |-> FALSE]

\* lines 146-149: the next category of the loop, or the end of the loop
BootFor ==
    /\ main.pc = "for"
    /\ pc = "idle"
    /\ IF main.i <= Len(CategoryList)
       THEN /\ category' = CategoryList[main.i]
            /\ pc' = "ensure"
            /\ main' = [main EXCEPT !.pc = "ensure"]
       ELSE /\ main' = [main EXCEPT !.pc = "observer"]
            /\ UNCHANGED <<pc, category>>
    /\ UNCHANGED <<fs, queue, event, filename, extension, dest_path, counter,
                   exc, outcome, moved_id, created, meddled, unit>>

\* line 150
BootVerified ==
    /\ main.pc = "ensure"
    /\ pc = "verified"
    /\ pc' = "idle"
    /\ category' = <<>>
    /\ main' = [main EXCEPT !.pc = "for", !.i = @ + 1]
    /\ UNCHANGED <<fs, queue, event, filename, extension, dest_path, counter,
                   exc, outcome, moved_id, created, meddled, unit>>

\* a bootstrap that goes on with the next category after a failure
BootExcept_continue ==
    /\ main.pc = "ensure"
    /\ pc = "boot_except"
    /\ pc' = "idle"
    /\ category' = <<>>
    /\ exc' = "none"
    /\ main' = [main EXCEPT !.pc = "for", !.i = @ + 1]
    /\ UNCHANGED <<fs, queue, event, filename, extension, dest_path, counter,
                   outcome, moved_id, created, meddled, unit>>

\* lines 151-153: sys.exit(1)
BootExcept ==
    /\ main.pc = "ensure"
    /\ pc = "boot_except"
    /\ pc' = "idle"
    /\ category' = <<>>
    /\ exc' = "none"
    /\ main' = [main EXCEPT !.pc = "exit_1"]
    /\ UNCHANGED <<fs, queue, event, filename, extension, dest_path, counter,
                   outcome, moved_id, created, meddled, unit>>

\* line 157: observer = Observer()
ObserverConstruct ==
    /\ main.pc = "observer"
    /\ main' = [main EXCEPT !.pc = "schedule", !.observer = "constructed"]
    /\ UNCHANGED <<fs, queue, hvars, created, meddled, unit>>

\* lines 158-159: observer.schedule(FileHandler(), WATCH_DIRECTORY)
ObserverSchedule ==
    /\ main.pc = "schedule"
    /\ main' = [main EXCEPT !.pc = "start", !.observer = "scheduled"]
    /\ UNCHANGED <<fs, queue, hvars, created, meddled, unit>>

\* lines 160-165: observer.start() starts the thread, or raises when the
\* watch cannot be set up
ObserverStart ==
    /\ main.pc = "start"
    /\ \/ main' = [main EXCEPT !.pc = "loop", !.observer = "started",
                               !.thread = "alive"]
       \/ main' = [main EXCEPT !.pc = "except_exception"]
    /\ UNCHANGED <<fs, queue, hvars, created, meddled, unit>>

\* lines 169-173
ExceptException ==
    /\ main.pc = "except_exception"
    /\ main' = [main EXCEPT !.pc = "join"]
    /\ UNCHANGED <<fs, queue, hvars, created, meddled, unit>>

\* the interrupt signal raises KeyboardInterrupt in main inside the try
\* block of lines 156-168; control goes to line 174
Interrupt ==
    /\ ~main.interrupted
    /\ main.pc \in {"observer", "schedule", "start", "loop"}
    /\ main' = [main EXCEPT !.pc = "except_interrupt", !.interrupted = TRUE]
    /\ UNCHANGED <<fs, queue, hvars, created, meddled, unit>>

\* lines 175-176: observer.stop(); the name observer is unbound when the
\* signal arrived during Observer()
ObserverStop ==
    /\ main.pc = "except_interrupt"
    /\ IF main.observer = "unbound"
       THEN main' = [main EXCEPT !.pc = "raised"]
       ELSE main' = [main EXCEPT !.pc = "join", !.observer = "stopped"]
    /\ UNCHANGED <<fs, queue, hvars, created, meddled, unit>>

\* the observer thread leaves its loop once stop was called and on_created
\* has returned
ThreadExit ==
    /\ main.observer = "stopped"
    /\ main.thread = "alive"
    /\ pc = "idle"
    /\ main' = [main EXCEPT !.thread = "finished"]
    /\ UNCHANGED <<fs, queue, hvars, created, meddled, unit>>

\* lines 178-179: observer.join() raises RuntimeError on a thread that was
\* never started, and waits for a thread that is alive
ObserverJoin ==
    /\ main.pc = "join"
    /\ main.thread # "alive"
    /\ IF main.thread = "unstarted"
       THEN main' = [main EXCEPT !.pc = "raised"]
       ELSE main' = [main EXCEPT !.pc = "stopped"]
    /\ UNCHANGED <<fs, queue, hvars, created, meddled, unit>>

\* what the watch root holds before startup
VariedCategories ==
    {PDF, Others}

PreexistingFs ==
    {[p \in {WATCH_DIRECTORY}
              \cup {join(WATCH_DIRECTORY, c) :
                      c \in {d \in VariedCategories : k[d] # "absent"}} |->
         IF p = WATCH_DIRECTORY THEN Dir(Mode755)
         ELSE IF k[basename(p)] = "file" THEN File(0, UmaskFileMode)
         ELSE Dir(UmaskDirMode)] :
     k \in [VariedCategories -> {"absent", "dir", "file"}]}

InitMain ==
    /\ fs \in PreexistingFs
    /\ queue = <<>>
    /\ IdleHandler
    /\ created = 0
    /\ meddled = 0
    /\ unit = NoCall
    /\ main = MainStart

NextMain ==
    \/ BootFor
    \/ BootVerified
    \/ BootExcept
    \/ ObserverConstruct
    \/ ObserverSchedule
    \/ ObserverStart
    \/ ExceptException
    \/ Interrupt
    \/ ObserverStop
    \/ ThreadExit
    \/ ObserverJoin
    \/ Dispatch
    \/ IsDirectoryCheck
    \/ Sleep
    \/ ExistsSource
    \/ HiddenCheck
    \/ ExtensionCheck
    \/ Classify
    \/ EnsureExists
    \/ MakeDirs
    \/ ChmodDir
    \/ ResolveFirst
    \/ ResolveProbe
    \/ Move
    \/ ChmodFile
    \/ Except
    \/ Return
    \/ CreateFile

SpecMain ==
    InitMain /\ [][NextMain]_vars

(***************************************************************************)
(* get_category on its own: the argument is drawn from the extensions of   *)
(* the table in three spellings and from strings the table does not have.  *)
(***************************************************************************)
TableExtensions ==
    UNION {{EXTENSION_MAPPINGS[i].extensions[j] :
                j \in 1..Len(EXTENSION_MAPPINGS[i].extensions)} :
           i \in 1..Len(EXTENSION_MAPPINGS)}

ExtensionInputs ==
    TableExtensions
        \cup {upper(e) : e \in TableExtensions}
        \cup {capitalised(e) : e \in TableExtensions}
        \cup {<<>>, <<".">>, <<"p", "d", "f">>, <<".", "x", "y", "z">>,
              <<".", "p", "d", "f", "x">>, <<".", "p", "d">>}

InitCategory ==
    /\ fs = BootstrappedFs
    /\ queue = <<>>
    /\ IdleHandler
    /\ created = 0
    /\ meddled = 0
    /\ unit \in {[fn |-> "get_category", arg |-> e, ret |-> <<>>, done |-> FALSE] :
                    e \in ExtensionInputs}
    /\ main = MainRunning

\* category = get_category(extension)
CallGetCategory ==
    /\ unit.fn = "get_category"
    /\ ~unit.done
    /\ unit' = [unit EXCEPT !.ret = get_category(unit.arg), !.done = TRUE]
    /\ UNCHANGED <<fs, queue, hvars, created, meddled, main>>

NextCategory ==
    CallGetCategory

SpecCategory ==
    InitCategory /\ [][NextCategory]_vars

(***************************************************************************)
(* get_unique_filename on its own: on_created is about to resolve the      *)
(* destination of a file, and the category directory holds any combination *)
(* of files and directories at the destination and its renamings.  No      *)
(* other process acts during the call.                                     *)
(***************************************************************************)
ResolvedNames ==
    {ReportPDF, ArchiveTarGz}

InitUnique ==
    \E name \in ResolvedNames :
      \E content \in [Candidates(name) -> {"absent", "file", "dir"}] :
        /\ fs = [p \in DOMAIN BootstrappedFs
                        \cup {join(WATCH_DIRECTORY, name)}
                        \cup {q \in Candidates(name) : content[q] # "absent"} |->
                    IF p \in DOMAIN BootstrappedFs THEN BootstrappedFs[p]
                    ELSE IF p = join(WATCH_DIRECTORY, name)
                         THEN File(1, UmaskFileMode)
                    ELSE IF content[p] = "file" THEN File(0, UmaskFileMode)
                    ELSE Dir(UmaskDirMode)]
        /\ queue = <<>>
        /\ pc = "resolve"
        /\ event = FileCreated(join(WATCH_DIRECTORY, name))
        /\ filename = name
        /\ extension = splitext(name).ext
        /\ category = get_category(splitext(name).ext)
        /\ dest_path = <<>>
        /\ counter = 0
        /\ exc = "none"
        /\ outcome = "none"
        /\ moved_id = 0
        /\ created = 1
        /\ meddled = MaxMeddle
        /\ unit = NoCall
        /\ main = MainRunning

NextUnique ==
    \/ ResolveFirst
    \/ ResolveProbe

SpecUnique ==
    InitUnique /\ [][NextUnique]_vars

(***************************************************************************)
(* ensure_directory_exists on its own: main is in its bootstrap loop at any *)
(* category, and the path of that category is absent, a regular file, or a  *)
(* directory with either mode, empty or not; the call is made twice.  No    *)
(* other process acts.                                                      *)
(***************************************************************************)
PathStates ==
    {[kind |-> <<"absent">>, mode |-> 0, content |-> FALSE],
     [kind |-> <<"file">>, mode |-> UmaskFileMode, content |-> FALSE]}
        \cup {[kind |-> <<"dir">>, mode |-> m, content |-> c] :
                 m \in {UmaskDirMode, Mode755}, c \in BOOLEAN}

InitEnsure ==
    \E i \in 1..Len(CategoryList), st \in PathStates :
        /\ fs = [p \in {WATCH_DIRECTORY}
                        \cup {join(WATCH_DIRECTORY, CategoryList[j]) : j \in 1..(i - 1)}
                        \cup (IF st.kind = <<"absent">> THEN {}
                              ELSE {join(WATCH_DIRECTORY, CategoryList[i])})
                        \cup (IF st.content
                              THEN {join(join(WATCH_DIRECTORY, CategoryList[i]), ReportPDF)}
                              ELSE {}) |->
                    IF Len(p) = 2 THEN File(0, UmaskFileMode)
                    ELSE IF p = join(WATCH_DIRECTORY, CategoryList[i])
                         THEN (IF st.kind = <<"file">> THEN File(0, st.mode)
                                                      ELSE Dir(st.mode))
                    ELSE Dir(Mode755)]
        /\ queue = <<>>
        /\ pc = "ensure"
        /\ event = NoEvent
        /\ filename = <<>>
        /\ extension = <<>>
        /\ category = CategoryList[i]
        /\ dest_path = <<>>
        /\ counter = 0
        /\ exc = "none"
        /\ outcome = "none"
        /\ moved_id = 0
        /\ created = 0
        /\ meddled = 0
        /\ unit = [fn |-> "ensure_directory_exists", arg |-> st.kind,
                   ret |-> <<>>, done |-> FALSE]
        /\ main = [MainStart EXCEPT !.pc = "ensure", !.i = i]

\* the same call once more, after the first one returned
CallEnsureAgain ==
    /\ unit.fn = "ensure_directory_exists"
    /\ ~unit.done
    /\ pc = "verified"
    /\ pc' = "ensure"
    /\ unit' = [unit EXCEPT !.done = TRUE]
    /\ UNCHANGED <<fs, queue, event, filename, extension, category, dest_path,
                   counter, exc, outcome, moved_id, created, meddled, main>>

NextEnsure ==
    \/ EnsureExists
    \/ MakeDirs
    \/ ChmodDir
    \/ CallEnsureAgain

SpecEnsure ==
    InitEnsure /\ [][NextEnsure]_vars

(***************************************************************************)
(* Properties.                                                             *)
(***************************************************************************)
\* a step of on_created (other processes leave its variables alone)
HandlerStep ==
    hvars' # hvars

\* the smallest element of a non-empty set of numbers
Min(S) ==
    CHOOSE n \in S : \A m \in S : n <= m

\* name with _n put before its last dot-suffix
Renamed(name, n) ==
    LET d == LastDot(name)
    IN  SubSeq(name, 1, d - 1) \o <<"_">> \o str(n) \o SubSeq(name, d, Len(name))

\* C1: get_category(e) is the category of the first entry of the table, in
\* the order PDF, Images, Video, Audio, Documents, Zip, Ebook, Installers,
\* whose list has the lower-case form of e, and "Others" when no entry has
\* it, the empty string included; ".pdf" and ".PDF" give "PDF", not "Ebook".
C1_FirstMatchOrOthers ==
    (unit.fn = "get_category" /\ unit.done) =>
        LET hits == {i \in 1..Len(EXTENSION_MAPPINGS) :
                        \E j \in 1..Len(EXTENSION_MAPPINGS[i].extensions) :
                            EXTENSION_MAPPINGS[i].extensions[j] = lower(unit.arg)}
        IN  /\ [i \in 1..Len(EXTENSION_MAPPINGS) |-> EXTENSION_MAPPINGS[i].category]
                 = <<PDF, Images, Video, Audio, Documents, Zip, Ebook, Installers>>
            /\ hits = {} => unit.ret = Others
            /\ hits # {} => unit.ret = EXTENSION_MAPPINGS[Min(hits)].category
            /\ unit.arg = <<>> => unit.ret = Others
            /\ unit.arg \in {<<".", "p", "d", "f">>, <<".", "P", "D", "F">>}
                  => unit.ret = PDF /\ unit.ret # Ebook

C1_Witness ==
    /\ unit.fn = "get_category"
    /\ unit.done
    /\ unit.arg = <<".", "P", "D", "F">>
    /\ unit.ret = PDF

\* C2: get_unique_filename(d) returns d when nothing exists at d; otherwise
\* it returns the renaming stem_N+ext with the smallest N >= 1 at which
\* nothing exists, so stem_(N+1)+ext after N collisions; nothing exists at
\* the path it returns.
C2_SmallestFreeSuffix ==
    pc = "move" =>
        LET d == join(category_path, filename)
            probe(n) == join(category_path, Renamed(filename, n))
        IN  /\ ~exists(fs, d) => dest_path = d
            /\ exists(fs, d) =>
                  \E n \in 1..(MaxSuffix + 1) :
                     /\ dest_path = probe(n)
                     /\ \A m \in 1..(n - 1) : exists(fs, probe(m))
            /\ ~exists(fs, dest_path)
            /\ (/\ filename = ReportPDF
                /\ exists(fs, d)
                /\ exists(fs, <<PDF, <<"r", "e", "p", "o", "r", "t", "_", "1", ".", "P", "D", "F">>>>)
                /\ ~exists(fs, <<PDF, <<"r", "e", "p", "o", "r", "t", "_", "2", ".", "P", "D", "F">>>>))
                  => dest_path = <<PDF, <<"r", "e", "p", "o", "r", "t", "_", "2", ".", "P", "D", "F">>>>

C2_Witness ==
    /\ pc = "move"
    /\ filename = ReportPDF
    /\ exists(fs, join(category_path, filename))
    /\ dest_path = <<PDF, <<"r", "e", "p", "o", "r", "t", "_", "2", ".", "P", "D", "F">>>>

\* the event in hand is for a file and on_created has it
FileEventInHand ==
    /\ event # NoEvent
    /\ ~event.is_directory

\* the file with the given id is directly inside the directory of category c
\* under the given name or one of its renamings
LandedIn(f, id, c, name) ==
    \E p \in DOMAIN f :
        /\ f[p].kind = "file"
        /\ f[p].id = id
        /\ Len(p) = 2
        /\ p[1] = c
        /\ \/ p[2] = name
           \/ \E n \in 1..(MaxSuffix + MaxFiles + 1) : p[2] = Renamed(name, n)

\* C3: every file on_created moves lands directly inside the directory of
\* the category of the last dot-suffix of its name, under its original name,
\* case preserved, or that name with _N before the extension.
C3_LandsInCategoryDirectory ==
    [][(pc = "move" /\ pc' = "chmod") =>
          LandedIn(fs', fs[src_path].id,
                   get_category(SubSeq(basename(src_path),
                                       LastDot(basename(src_path)),
                                       Len(basename(src_path)))),
                   basename(src_path))]_vars

\* C4: when the move and the permission step of an event both succeed, at
\* the end of the event the file is absent from its original path, present
\* at the resolved destination path, and its mode is 0o644.
C4_MovedWithMode644 ==
    [][(pc = "chmod" /\ pc' = "return" /\ outcome' = "moved") =>
          /\ exists(fs', src_path) => fs'[src_path].id # moved_id
          /\ exists(fs', dest_path)
          /\ fs'[dest_path].kind = "file"
          /\ fs'[dest_path].id = moved_id
          /\ fs'[dest_path].mode = Mode644]_vars

\* C5: at the moment on_created performs the move no entry exists at the
\* destination path, so the move never overwrites or replaces an entry, also
\* when another process creates entries in the category directory between
\* the existence probe and the move.
C5_DestinationFreeAtMove ==
    [][(pc = "move" /\ pc' = "chmod") => ~exists(fs, dest_path)]_vars

\* C6: for the event of a file whose name starts with "." on_created
\* performs no classification, no provisioning, no move and no permission
\* change: its steps leave the filesystem as it is.
C6_HiddenFileNeverMoved ==
    [][(/\ FileEventInHand
        /\ Head(basename(src_path)) = "."
        /\ HandlerStep) =>
          /\ fs' = fs
          /\ queue' = queue
          /\ category' = <<>>
          /\ dest_path' = <<>>
          /\ pc' \in {"sleep", "exists_src", "hidden", "return", "idle"}]_vars

C6_Witness ==
    /\ pc = "return"
    /\ outcome = "hidden"
    /\ src_path = <<DotNotesTxt>>
    /\ exists(fs, src_path)

\* C7: for the event of a file whose name has no extension on_created ends
\* without classifying, provisioning, moving or changing permissions: its
\* steps leave the filesystem as it is.
C7_NoExtensionNeverMoved ==
    [][(/\ FileEventInHand
        /\ \A i \in 1..Len(basename(src_path)) : basename(src_path)[i] # "."
        /\ HandlerStep) =>
          /\ fs' = fs
          /\ queue' = queue
          /\ category' = <<>>
          /\ dest_path' = <<>>
          /\ pc' \in {"sleep", "exists_src", "hidden", "splitext", "return",
                      "idle"}]_vars

C7_Witness ==
    /\ pc = "return"
    /\ outcome = "no_extension"
    /\ src_path = <<PDF>>
    /\ exists(fs, src_path)
    /\ fs[src_path].kind = "file"

\* C8: a creation event whose is-directory flag is set makes on_created end
\* at once: no debounce delay, no classification, no filesystem change,
\* whatever the name of the directory.
C8_DirectoryEventIgnored ==
    [][(event.is_directory /\ HandlerStep) =>
          /\ fs' = fs
          /\ queue' = queue
          /\ filename' = <<>>
          /\ category' = <<>>
          /\ pc = "on_created" => (pc' = "return" /\ outcome' = "ignored")
          /\ pc' \in {"return", "idle"}]_vars

C8_Witness ==
    /\ pc = "return"
    /\ outcome = "ignored"
    /\ src_path = <<StuffPdf>>
    /\ isdir(fs, src_path)

\* C9: when the source file is gone at the end of the debounce delay, the
\* event ends as vanished: no error is raised, no directory is created,
\* nothing is moved, and the handler returns to serve the next event.
C9_VanishedSourceIsDone ==
    [][(/\ pc \in {"exists_src", "return"}
        /\ FileEventInHand
        /\ pc = "exists_src" => ~exists(fs, src_path)
        /\ pc = "return" => outcome = "vanished"
        /\ HandlerStep) =>
          /\ fs' = fs
          /\ queue' = queue
          /\ exc' = "none"
          /\ pc = "exists_src" => (pc' = "return" /\ outcome' = "vanished")
          /\ pc = "return" => IdleHandler']_vars

C9_Witness ==
    /\ pc = "return"
    /\ outcome = "vanished"
    /\ exc = "none"
    /\ ~exists(fs, src_path)

\* C10: a failure of a step of on_created never leaves on_created: the
\* handler logs it and returns with the event in ERROR, the thread that
\* delivers the events stays alive, and the handler keeps nothing of the
\* failed event when it takes the next one.
C10_FailureContained ==
    [][/\ pc' # "dead"
       /\ exc' # "none" => pc' \in {"except", "return"}
       /\ (exc # "none" /\ pc = "except" /\ HandlerStep) =>
             (pc' = "return" /\ outcome' = "error" /\ fs' = fs)
       /\ (exc # "none" /\ pc = "return" /\ HandlerStep) =>
             (outcome = "error" /\ IdleHandler')]_vars

C10_Witness ==
    /\ pc = "return"
    /\ outcome = "error"
    /\ exc = "FileNotFoundError"
    /\ dest_path # <<>>

\* a step of main or of on_created
ProcessStep ==
    hvars' # hvars \/ main' # main

\* C11: when the provisioning of a category directory fails during the
\* bootstrap loop of main, the process exits with status 1, the observer is
\* never constructed, scheduled or started, and no creation event is ever
\* delivered or handled.
C11_BootstrapFailureIsFatal ==
    [][/\ (main.pc = "ensure" /\ exc' # "none") => pc' = "boot_except"
       /\ (pc = "boot_except" /\ ProcessStep) => main'.pc = "exit_1"
       /\ main'.pc = "exit_1" =>
             /\ main'.observer = "unbound"
             /\ main'.thread = "unstarted"
             /\ queue' = <<>>
             /\ IdleHandler'
       /\ main.pc = "exit_1" => ~ProcessStep]_vars

C11_Witness ==
    /\ main.pc = "exit_1"
    /\ main.i = Len(CategoryList)
    /\ ~exists(fs, join(WATCH_DIRECTORY, Others))

\* C13: ensure_directory_exists never returns without an error while its
\* path is not a directory, a regular file at the path included.
C13_SuccessMeansDirectory ==
    [][(/\ pc \in {"ensure", "makedirs", "chmod_dir"}
        /\ pc' \in {"verified", "resolve"}) =>
          isdir(fs', category_path)]_vars

\* C14: a second call of ensure_directory_exists on the same path after a
\* first call that returned raises no error and changes nothing; a call on
\* an existing directory leaves its contents and its mode as they are; the
\* mode 0o755 is set only by a call that created the directory itself.
C14_EnsureIdempotent ==
    [][/\ (unit.done /\ HandlerStep) =>
             (fs' = fs /\ exc' = "none" /\ pc' = "verified")
       /\ (pc = "ensure" /\ isdir(fs, category_path) /\ HandlerStep) =>
             (fs' = fs /\ exc' = "none" /\ pc' = "verified")
       /\ (pc = "chmod_dir" /\ fs' # fs) =>
             /\ unit.arg = <<"absent">>
             /\ ~unit.done
             /\ fs' = [fs EXCEPT ![category_path].mode = Mode755]]_vars

C14_Witness ==
    /\ unit.fn = "ensure_directory_exists"
    /\ unit.done
    /\ pc = "verified"
    /\ unit.arg = <<"dir">>
    /\ fs[category_path].mode = UmaskDirMode
    /\ exists(fs, join(category_path, ReportPDF))

\* C17: when main has left its bootstrap loop without exiting, each of the
\* nine category paths is a directory, whatever the watch root held before.
C17_AllCategoriesAfterBootstrap ==
    main.pc = "observer" =>
        \A c \in {PDF, Images, Video, Audio, Documents, Zip, Ebook,
                  Installers, Others} : isdir(fs, join(WATCH_DIRECTORY, c))

\* C20: an interrupt signal that arrives once main is inside its try block
\* stops the observer and lets main leave through its last statement; the
\* shutdown raises no error.
C20_InterruptStopsCleanly ==
    main.interrupted => main.pc \in {"except_interrupt", "join", "stopped"}

\* C12 as claimed: when the permission step fails after the move succeeded,
\* the file is at the resolved destination and not at the source path.
C12_FileAtDestinationAfterFailure ==
    [][(pc = "chmod" /\ exc' # "none") =>
          /\ exists(fs', dest_path)
          /\ fs'[dest_path].kind = "file"
          /\ fs'[dest_path].id = moved_id
          /\ exists(fs', src_path) => fs'[src_path].id # moved_id]_vars

\* C12 as amended: when the permission step fails after the move succeeded,
\* on_created does not reverse the move: from the failure to the end of the
\* event it changes nothing in the filesystem, and it returns with the event
\* in error.
C12_MoveNotReversed ==
    [][(/\ moved_id # 0
        /\ HandlerStep
        /\ exc # "none" \/ exc' # "none") =>
          /\ fs' = fs
          /\ pc' \in {"except", "return", "idle"}
          /\ pc = "except" => outcome' = "error"
          /\ pc = "return" => outcome = "error"]_vars

C12_Witness ==
    /\ pc = "return"
    /\ outcome = "error"
    /\ exc = "PermissionError"
    /\ moved_id # 0
    /\ exists(fs, dest_path)
    /\ fs[dest_path].id = moved_id
    /\ ~exists(fs, src_path)

\* C15: whenever on_created executes its move, the category path is a
\* directory, also after another process removed the directory or put a
\* regular file at its path.
C15_CategoryIsDirectoryAtMove ==
    [][(pc = "move" /\ HandlerStep) => isdir(fs, category_path)]_vars

\* the files of the watch root that on_created has moved
Moved(f) ==
    {f[p].id : p \in {q \in DOMAIN f : Len(q) >= 2 /\ f[q].kind = "file"
                                        /\ f[q].id > 0}}

\* the name the k-th file of that name is stored under (k counted from 0)
Stored(name, k) ==
    IF k = 0 THEN name ELSE Renamed(name, k)

\* every moved file is directly inside a category directory, and the file
\* stored as stem_k+ext came after the files stored under the k names
\* before it
StoredInOrder(f) ==
    \A p \in DOMAIN f :
        (Len(p) >= 2 /\ f[p].kind = "file" /\ f[p].id > 0) =>
            /\ Len(p) = 2
            /\ \E name \in {n \in FileNames : LastDot(n) > 1}, k \in 0..MaxFiles :
                  /\ p[2] = Stored(name, k)
                  /\ \A j \in 0..(k - 1) :
                        /\ exists(f, <<p[1], Stored(name, j)>>)
                        /\ f[<<p[1], Stored(name, j)>>].id > 0
                        /\ f[<<p[1], Stored(name, j)>>].id < f[p].id

C18_ProvisioningFailureEndsEvent ==
    [][/\ (pc \in {"ensure", "makedirs", "chmod_dir"} /\ exc' # "none") =>
             (pc' = "except" /\ fs' = fs)
       /\ (exc # "none" /\ dest_path = <<>> /\ HandlerStep) =>
             /\ fs' = fs
             /\ dest_path' = <<>>
             /\ counter' = 0
             /\ moved_id' = 0
             /\ pc' \in {"return", "idle"}
             /\ pc = "except" => outcome' = "error"]_vars

C18_Witness ==
    /\ pc = "return"
    /\ outcome = "error"
    /\ exc = "FileExistsError"
    /\ dest_path = <<>>
    /\ exists(fs, src_path)
    /\ fs[src_path].mode = UmaskFileMode

\* C19: under weak fairness of the observer thread, with filesystem calls
\* that return and other processes creating finitely many entries, every
\* creation event that is delivered reaches the end of on_created (done or
\* error): an event in hand reaches the return, and again and again the
\* queue is empty with the handler idle, so the sleep of one event does not
\* block the queued ones for ever and the probe loop of get_unique_filename
\* ends.
C19_EveryEventTerminates ==
    /\ (event # NoEvent) ~> (pc = "return")
    /\ []<>(queue = <<>> /\ pc = "idle")

C19_Witness ==
    /\ pc = "return"
    /\ queue # <<>>
    /\ outcome = "moved"
    /\ dest_path = <<PDF, <<"r", "e", "p", "o", "r", "t", "_", "1", ".", "P", "D", "F">>>>
====
